---- MODULE Spec2Model ----
(***************************************************************************)
(* NV verification automation (nv/__init__.py, nv/verification.py).        *)
(*                                                                         *)
(* Python strings are modelled as sequences of one-character strings, so   *)
(* that str.strip(), str.lower() and int() are computed, not assumed.      *)
(* A call's outcome is a record [exc, value]: exc = "none" when the call   *)
(* returns value, otherwise the name of the exception class it raises.     *)
(***************************************************************************)
EXTENDS Integers, Sequences, FiniteSets, TLC

VARIABLES
    pc,             \* position of the operation in progress / of _main
    nv_id,          \* _get_nv_type: argument nv_id
    nv_calibrated,  \* _get_nv_type: argument nv_calibrated
    nv_type,        \* _get_nv_type: returned type
    nv_file,        \* _read_nv_items: the file handed in
    nv_items,       \* _read_nv_items: outcome [exc, value]
    input_file,     \* content of self.input_file
    definition_file,\* content of self.definition_file (the master file)
    out_file,       \* content of self.out_file
    new_def_file,   \* content of self.new_def_file (the trimmed definition)
    report_file,    \* content of the report file
    options,        \* the command line options _main parsed
    input_nv_items, \* verify: the input items, re-typed
    output_nv_items,\* verify: the device-read items
    result,         \* outcome [exc, value] of the last operation called
    verification_result_list,  \* the list verify returned
    trace           \* the side effects of the run so far, in order

vars == <<pc, nv_id, nv_calibrated, nv_type, nv_file, nv_items, input_file,
          definition_file, out_file, new_def_file, report_file, options,
          input_nv_items, output_nv_items, result, verification_result_list,
          trace>>

----------------------------------------------------------------------------
(* Bounds of the model *)

\* ids within IdSpread of 0 and of NV_TYPE_EFS_RANGE are classified
IdSpread == 2
\* up to MaxPad blanks on each side of a calibrated attribute value
MaxPad == 1
\* an NV item file holds up to MaxElems elements
MaxElems == 2
\* verify: the input file and the device-read file hold up to MaxItems items
MaxItems == 2
\* verify: the trimmed definition holds up to MaxDefs items
MaxDefs == 1
\* _main: each file of a run holds up to MaxMainElems elements
MaxMainElems == 1
\* re-typing: the input file holds up to MaxRetypeItems items
MaxRetypeItems == 2
\* re-typing: the trimmed definition holds up to MaxRetypeDefs items
MaxRetypeDefs == 2

----------------------------------------------------------------------------
(* Program constants *)

NV_TYPE_EFS == "EFS"
NV_TYPE_EFS_RANGE == 65535
\* self.new_def_file: NEW_DEFINITION_FILE % uuid.uuid4(), one name per run
NEW_DEFINITION_FILE == "new_definition_<uuid>.xml"
NV_TYPE_ETS == "ETS"
NV_TYPE_TA == "TA"
NV_TYPE_NV == "NV"

ERR_NONE == "none"
NVAutomationError == "NVAutomationError"
IndexError == "IndexError"

\* A local variable of the code is bound once, as x in {F(x) : x \in {e}};
\* Only takes the one value out of such a set.
Only(S) == CHOOSE x \in S : TRUE

Return(v) == [exc |-> ERR_NONE, value |-> v]
Raise(e) == [exc |-> e, value |-> <<>>]

----------------------------------------------------------------------------
(* Python string primitives *)

Whitespace == {" ", "\t", "\n"}
Digits == <<"0", "1", "2", "3", "4", "5", "6", "7", "8", "9">>
UpperCase == <<"A", "B", "C", "D", "E", "F", "G", "H", "I", "J", "K", "L", "M",
               "N", "O", "P", "Q", "R", "S", "T", "U", "V", "W", "X", "Y", "Z">>
LowerCase == <<"a", "b", "c", "d", "e", "f", "g", "h", "i", "j", "k", "l", "m",
               "n", "o", "p", "q", "r", "s", "t", "u", "v", "w", "x", "y", "z">>

\* str.lower() on one character
LowerChar(c) ==
    IF \E i \in DOMAIN UpperCase : UpperCase[i] = c
    THEN LowerCase[CHOOSE i \in DOMAIN UpperCase : UpperCase[i] = c]
    ELSE c

\* str.lower()
Lower(s) == [i \in DOMAIN s |-> LowerChar(s[i])]

RECURSIVE LStrip(_)
LStrip(s) == IF s # <<>> /\ Head(s) \in Whitespace THEN LStrip(Tail(s)) ELSE s

RECURSIVE RStrip(_)
RStrip(s) ==
    IF s # <<>> /\ s[Len(s)] \in Whitespace
    THEN RStrip(SubSeq(s, 1, Len(s) - 1))
    ELSE s

\* str.strip(): surrounding whitespace removed
Strip(s) == RStrip(LStrip(s))

IsDigit(c) == \E i \in DOMAIN Digits : Digits[i] = c
DigitValue(c) == (CHOOSE i \in DOMAIN Digits : Digits[i] = c) - 1

RECURSIVE DigitsValue(_)
DigitsValue(s) ==
    IF s = <<>> THEN 0
    ELSE 10 * DigitsValue(SubSeq(s, 1, Len(s) - 1)) + DigitValue(s[Len(s)])

\* int(str): surrounding whitespace is ignored, one optional sign, then one
\* or more decimal digits; anything else raises ValueError.
ParseInt(s) ==
    LET t == Strip(s)
        signed == t # <<>> /\ Head(t) \in {"+", "-"}
        d == IF signed THEN Tail(t) ELSE t
    IN  IF d # <<>> /\ \A i \in DOMAIN d : IsDigit(d[i])
        THEN Return(IF signed /\ Head(t) = "-" THEN 0 - DigitsValue(d)
                    ELSE DigitsValue(d))
        ELSE Raise("ValueError")

----------------------------------------------------------------------------
(* NVAutomation._get_nv_type *)

GetNvType_EfsInclusive(id, calibrated) ==
    Only({IF id >= NV_TYPE_EFS_RANGE THEN NV_TYPE_EFS
          ELSE IF c = <<"t", "r", "u", "e">> THEN NV_TYPE_TA
          ELSE IF c = <<"e", "t", "s">> THEN NV_TYPE_ETS
          ELSE NV_TYPE_NV :
          c \in {Lower(Strip(calibrated))}})

GetNvType(id, calibrated) ==
    Only({IF id > NV_TYPE_EFS_RANGE THEN NV_TYPE_EFS
          ELSE IF c = <<"t", "r", "u", "e">> THEN NV_TYPE_TA
          ELSE IF c = <<"e", "t", "s">> THEN NV_TYPE_ETS
          ELSE NV_TYPE_NV :
          c \in {Lower(Strip(calibrated))}})

----------------------------------------------------------------------------
(* XML documents as minidom presents them *)

\* Element.getAttribute: the value, or "" when the attribute is absent
GetAttribute(tag, name) ==
    IF name \in DOMAIN tag.attrs THEN tag.attrs[name] ELSE <<>>

GetElementsByTagName(file, name) ==
    SelectSeq(file.elements, LAMBDA e : e.tag = name)

\* A text node's nodeValue is its data; an element node's nodeValue is None.
TextNode(s) == [isText |-> TRUE, data |-> s]
ElementNode == [isText |-> FALSE, data |-> <<>>]

----------------------------------------------------------------------------
(* NVAutomation._read_nv_items *)

NVItem(id, name, values, type) ==
    [nv_id |-> id, nv_name |-> name, nv_values |-> values, nv_type |-> type]

\* One pass of the loop body over tag, appending to acc.
ReadTag(tag, acc) ==
    IF tag.childNodes = <<>> THEN Raise(IndexError)
    ELSE Only({
        IF id.exc # ERR_NONE THEN Raise(NVAutomationError)
        ELSE IF ~Head(tag.childNodes).isText THEN Raise(NVAutomationError)
        ELSE Return(Append(acc,
                 NVItem(id.value, Strip(GetAttribute(tag, "name")),
                        Strip(Head(tag.childNodes).data),
                        GetNvType(id.value, GetAttribute(tag, "calibrated")))))
        : id \in {ParseInt(GetAttribute(tag, "id"))}})

RECURSIVE ReadTags(_, _)
ReadTags(tags, acc) ==
    IF tags = <<>> THEN Return(acc)
    ELSE Only({IF r.exc # ERR_NONE THEN r ELSE ReadTags(Tail(tags), r.value) :
               r \in {ReadTag(Head(tags), acc)}})

ReadNvItems(file) ==
    IF file.state # "ok" THEN Raise(NVAutomationError)
    ELSE ReadTags(GetElementsByTagName(file, "NvItem"), <<>>)

----------------------------------------------------------------------------
(* NVAutomation.read_input_file *)

ReadInputFile(file) ==
    Only({IF r.exc # ERR_NONE THEN r
          ELSE Return([i \in DOMAIN r.value |-> r.value[i].nv_id]) :
          r \in {ReadNvItems(file)}})

----------------------------------------------------------------------------
(* NVAutomation.create_new_definition_file *)

AbsentFile == [state |-> "absent", elements |-> <<>>]
XmlFile(elements) == [state |-> "ok", elements |-> elements]

\* Node.appendChild on the new root: a node that already has a parent is
\* taken out of it first, so a node is never twice among the children.
\* Nodes of the master document are named by their position in it.
AppendChild_NoDetach(children, node) == Append(children, node)

AppendChild(children, node) ==
    Append(SelectSeq(children, LAMBDA n : n # node), node)

\* for nv_id in input_nv_id_list: if nv_id == int(tag_id): appendChild(tag)
RECURSIVE AppendPerId(_, _, _, _)
AppendPerId(children, node, tagId, ids) ==
    IF ids = <<>> THEN children
    ELSE AppendPerId(IF Head(ids) = tagId THEN AppendChild(children, node)
                     ELSE children,
                     node, tagId, Tail(ids))

\* for tag in dom.getElementsByTagName("NvItem"), the nodes from position
\* `from` on; int(tag_id) is evaluated once per input id, so it can only
\* raise when the input id list is not empty.
RECURSIVE AppendNvItems(_, _, _, _)
AppendNvItems(children, master, from, ids) ==
    IF from > Len(master) THEN Return(children)
    ELSE IF master[from].tag # "NvItem"
    THEN AppendNvItems(children, master, from + 1, ids)
    ELSE IF ids = <<>> THEN AppendNvItems(children, master, from + 1, ids)
    ELSE Only({
            IF tagId.exc # ERR_NONE THEN Raise(NVAutomationError)
            ELSE AppendNvItems(AppendPerId(children, from, tagId.value, ids),
                               master, from + 1, ids) :
            tagId \in {ParseInt(GetAttribute(master[from], "id"))}})

\* for tag in dom.getElementsByTagName("DataType"): root_tag.appendChild(tag)
RECURSIVE AppendDataTypes(_, _, _)
AppendDataTypes(children, master, from) ==
    IF from > Len(master) THEN children
    ELSE AppendDataTypes(IF master[from].tag = "DataType"
                         THEN AppendChild(children, from) ELSE children,
                         master, from + 1)

\* The children of the new document's root, as positions in the master.
NewRootChildren(master, ids) ==
    AppendNvItems(AppendDataTypes(<<>>, master, 1), master, 1, ids)

\* The method's outcome and the file it leaves: [result, file].
\* The method has no return statement: it returns None.
CreateNewDefinitionFile(inputFile, masterFile, oldFile, canWrite) ==
    Only({
        IF ids.exc # ERR_NONE THEN [result |-> ids, file |-> oldFile]
        ELSE IF masterFile.state # "ok"
        THEN [result |-> Raise(NVAutomationError), file |-> oldFile]
        ELSE Only({
            IF children.exc # ERR_NONE
            THEN [result |-> children, file |-> oldFile]
            ELSE IF ~canWrite
            THEN [result |-> Raise(NVAutomationError), file |-> oldFile]
            ELSE [result |-> Return("None"),
                  file |-> XmlFile([i \in DOMAIN children.value |->
                                      masterFile.elements[children.value[i]]])] :
            children \in {NewRootChildren(masterFile.elements, ids.value)}}) :
        ids \in {ReadInputFile(inputFile)}})

----------------------------------------------------------------------------
(* NVAutomation._update_nv_items_with_def_file *)

SameKey(a, b) == a.nv_id = b.nv_id /\ a.nv_name = b.nv_name

\* The inner loop without its break: the last matching item decides.
FirstMatch_NoBreak(item, list) ==
    IF \E j \in DOMAIN list : SameKey(item, list[j])
    THEN CHOOSE j \in DOMAIN list :
            /\ SameKey(item, list[j])
            /\ \A k \in (j + 1)..Len(list) : ~SameKey(item, list[k])
    ELSE 0

\* Position of the item the inner loop breaks on, 0 when it runs to the end.
FirstMatch(item, list) ==
    IF \E j \in DOMAIN list : SameKey(item, list[j])
    THEN CHOOSE j \in DOMAIN list :
            /\ SameKey(item, list[j])
            /\ \A k \in 1..(j - 1) : ~SameKey(item, list[k])
    ELSE 0

UpdateNvItemsWithDefFile(items, defFile) ==
    Only({
        IF defs.exc # ERR_NONE THEN defs
        ELSE Return([i \in DOMAIN items |->
                Only({IF m = 0 THEN items[i]
                      ELSE [items[i] EXCEPT !.nv_type = defs.value[m].nv_type] :
                      m \in {FirstMatch(items[i], defs.value)}})]) :
        defs \in {ReadNvItems(defFile)}})

----------------------------------------------------------------------------
(* NVAutomationQCT.verify, lines 92-123: the comparison *)

RESULT_OK == "OK"
RESULT_NG == "NG"

VerificationItem(in, out, res) ==
    [input_nv_item |-> in, output_nv_item |-> out, verification_result |-> res]

\* NVItem(-1, "", ""): nv_type takes its default
EmptyNvItem == NVItem(-1, <<>>, <<>>, NV_TYPE_NV)

IdMatch(item, list) ==
    IF \E j \in DOMAIN list : item.nv_id = list[j].nv_id
    THEN CHOOSE j \in DOMAIN list :
            /\ item.nv_id = list[j].nv_id
            /\ \A k \in 1..(j - 1) : item.nv_id # list[k].nv_id
    ELSE 0

LastMatch(item, list) ==
    IF \E j \in DOMAIN list : SameKey(item, list[j])
    THEN CHOOSE j \in DOMAIN list :
            /\ SameKey(item, list[j])
            /\ \A k \in (j + 1)..Len(list) : ~SameKey(item, list[k])
    ELSE 0

VerifyItem_ById(in, outs) ==
    Only({IF m = 0 THEN VerificationItem(in, EmptyNvItem, RESULT_NG)
          ELSE IF in.nv_values = outs[m].nv_values
          THEN VerificationItem(in, outs[m], RESULT_OK)
          ELSE VerificationItem(in, outs[m], RESULT_NG) :
          m \in {IdMatch(in, outs)}})

VerifyItem_LastMatch(in, outs) ==
    Only({IF m = 0 THEN VerificationItem(in, EmptyNvItem, RESULT_NG)
          ELSE IF in.nv_values = outs[m].nv_values
          THEN VerificationItem(in, outs[m], RESULT_OK)
          ELSE VerificationItem(in, outs[m], RESULT_NG) :
          m \in {LastMatch(in, outs)}})

\* One pass of the outer loop: the VerificationItem appended for in_nv_item.
VerifyItem(in, outs) ==
    Only({IF m = 0 THEN VerificationItem(in, EmptyNvItem, RESULT_NG)
          ELSE IF in.nv_values = outs[m].nv_values
          THEN VerificationItem(in, outs[m], RESULT_OK)
          ELSE VerificationItem(in, outs[m], RESULT_NG) :
          m \in {FirstMatch(in, outs)}})

RECURSIVE Compare_SkipUnmatched(_, _)
Compare_SkipUnmatched(ins, outs) ==
    IF ins = <<>> THEN <<>>
    ELSE IF FirstMatch(Head(ins), outs) = 0
    THEN Compare_SkipUnmatched(Tail(ins), outs)
    ELSE <<VerifyItem(Head(ins), outs)>> \o Compare_SkipUnmatched(Tail(ins), outs)

\* The outer loop: verification_result_list for the two item lists.
RECURSIVE Compare(_, _)
Compare(ins, outs) ==
    IF ins = <<>> THEN <<>>
    ELSE <<VerifyItem(Head(ins), outs)>> \o Compare(Tail(ins), outs)

\* if not input_nv_items or not output_nv_items: raise
CheckNotEmpty_InputOnly(ins, outs) == ins # <<>>

CheckNotEmpty(ins, outs) == ins # <<>> /\ outs # <<>>

\* verify up to the return of the result list, the report left aside:
\* the outcome, and the two lists as far as they were read
VerifyList(inFile, defFile, outFile) ==
    Only({
        IF read.exc # ERR_NONE
        THEN [result |-> read, input_nv_items |-> <<>>, output_nv_items |-> <<>>]
        ELSE Only({
            IF ins.exc # ERR_NONE
            THEN [result |-> ins, input_nv_items |-> <<>>,
                  output_nv_items |-> <<>>]
            ELSE Only({
                IF outs.exc # ERR_NONE
                THEN [result |-> outs, input_nv_items |-> ins.value,
                      output_nv_items |-> <<>>]
                ELSE [result |-> IF ~CheckNotEmpty(ins.value, outs.value)
                                 THEN Raise(NVAutomationError)
                                 ELSE Return(Compare(ins.value, outs.value)),
                      input_nv_items |-> ins.value,
                      output_nv_items |-> outs.value] :
                outs \in {ReadNvItems(outFile)}}) :
            ins \in {UpdateNvItemsWithDefFile(read.value, defFile)}}) :
        read \in {ReadNvItems(inFile)}})

----------------------------------------------------------------------------
(* NVAutomationQCT.publish_verification_result *)

RESULT_PASSED == "<span style='color:green;'>PASSED</span>"
RESULT_FAILED == "<span style='color:red;'>FAILED</span>"
RESULT_SKIPPED == "<span style='color:gray;'>SKIPPED</span>"
REPORT_SUMMARY_PASSED == "<span style='color:green;'>PASSED</span>"
REPORT_SUMMARY_FAILED == "<span style='color:red;'>FAILED</span>"

AbsentReport == [state |-> "absent", rows |-> <<>>, summary |-> ""]

RowState_FailAnyType(v) ==
    IF v.verification_result = RESULT_NG THEN RESULT_FAILED
    ELSE IF v.input_nv_item.nv_type # NV_TYPE_NV THEN RESULT_SKIPPED
    ELSE RESULT_PASSED

\* nv_item_verification_result of one pass of the loop
RowState(v) ==
    IF v.input_nv_item.nv_type = NV_TYPE_NV /\ v.verification_result = RESULT_NG
    THEN RESULT_FAILED
    ELSE IF v.input_nv_item.nv_type # NV_TYPE_NV THEN RESULT_SKIPPED
    ELSE RESULT_PASSED

\* the tuple substituted into the template's values line
ReportRow(v) ==
    [nv_id |-> v.input_nv_item.nv_id,
     input_values |-> v.input_nv_item.nv_values,
     output_values |-> v.output_nv_item.nv_values,
     input_name |-> v.input_nv_item.nv_name,
     output_name |-> v.output_nv_item.nv_name,
     nv_type |-> v.input_nv_item.nv_type,
     state |-> RowState(v)]

Summary_AnyNG(list) ==
    IF list = <<>> \/ \E i \in DOMAIN list : list[i].verification_result = RESULT_NG
    THEN REPORT_SUMMARY_FAILED ELSE REPORT_SUMMARY_PASSED

\* the loop over result_list: every pass whose row is FAILED sets summary
RECURSIVE SummaryScan(_, _)
SummaryScan(rest, summary) ==
    IF rest = <<>> THEN summary
    ELSE SummaryScan(Tail(rest),
                     IF RowState(Head(rest)) = RESULT_FAILED
                     THEN REPORT_SUMMARY_FAILED ELSE summary)

\* summary as written: FAILED from the start for an empty list
Summary(list) ==
    SummaryScan(list, IF list = <<>> THEN REPORT_SUMMARY_FAILED
                      ELSE REPORT_SUMMARY_PASSED)

\* The method's outcome and the report file it leaves: [result, file].
PublishVerificationResult(list, oldReport, templateOk, canWrite) ==
    IF ~templateOk THEN [result |-> Raise(NVAutomationError), file |-> oldReport]
    ELSE IF ~canWrite
    THEN [result |-> Raise(NVAutomationError), file |-> oldReport]
    ELSE [result |-> Return("None"),
          file |-> [state |-> "ok",
                    rows |-> [i \in DOMAIN list |-> ReportRow(list[i])],
                    summary |-> Summary(list)]]

----------------------------------------------------------------------------
(* NVAutomationQCT.verify, whole: with report_file the report is published *)

\* the outcome, the report file left, and the two lists
Verify(inFile, defFile, outFile, withReport, oldReport, templateOk, canWrite) ==
    Only({
        IF v.result.exc # ERR_NONE \/ ~withReport
        THEN [result |-> v.result, file |-> oldReport,
              input_nv_items |-> v.input_nv_items,
              output_nv_items |-> v.output_nv_items]
        ELSE Only({
            [result |-> IF pub.result.exc # ERR_NONE THEN pub.result
                        ELSE v.result,
             file |-> pub.file,
             input_nv_items |-> v.input_nv_items,
             output_nv_items |-> v.output_nv_items] :
            pub \in {PublishVerificationResult(v.result.value, oldReport,
                                               templateOk, canWrite)}}) :
        v \in {VerifyList(inFile, defFile, outFile)}})

----------------------------------------------------------------------------
(* NVAutomationQCT.read_nv_items_from_phone *)

\* The same call with the existence check moved after the launch.
ReadNvItemsFromPhone_LaunchUnchecked(toolExists, launchOk, commandFailed, written, oldOut) ==
    IF ~toolExists \/ ~launchOk \/ commandFailed
    THEN [result |-> Raise(NVAutomationError), file |-> oldOut, launched |-> TRUE]
    ELSE [result |-> Return("None"), file |-> written, launched |-> TRUE]

\* [result, file, launched]: the outcome, self.out_file as the call leaves
\* it, and whether the vendor tool was launched. toolExists: the executable
\* is on the search path; launchOk: run_cmd did not raise; commandFailed:
\* the tool's output holds "Command failed"; written: what the tool wrote.
ReadNvItemsFromPhone(toolExists, launchOk, commandFailed, written, oldOut) ==
    IF ~toolExists
    THEN [result |-> Raise(NVAutomationError), file |-> oldOut, launched |-> FALSE]
    ELSE IF ~launchOk
    THEN [result |-> Raise(NVAutomationError), file |-> oldOut, launched |-> TRUE]
    ELSE IF commandFailed
    THEN [result |-> Raise(NVAutomationError), file |-> oldOut, launched |-> TRUE]
    ELSE [result |-> Return("None"), file |-> written, launched |-> TRUE]

\* os.remove(nv_automation.new_def_file): the file left
OsRemove(file, canRemove) == IF canRemove THEN AbsentFile ELSE file

----------------------------------------------------------------------------
(* Inputs *)

Blanks(n) == [i \in 1..n |-> " "]
Pad(l, s, r) == Blanks(l) \o s \o Blanks(r)
SeqsUpTo(S, n) == UNION {[1..k -> S] : k \in 0..n}

S_true == <<"t", "r", "u", "e">>
S_false == <<"f", "a", "l", "s", "e">>
S_ets == <<"e", "t", "s">>
S_65536 == <<"6", "5", "5", "3", "6">>

Elem(id, name, calibrated, text) ==
    [tag |-> "NvItem",
     attrs |-> [id |-> id, name |-> name, calibrated |-> calibrated],
     childNodes |-> <<TextNode(text)>>]

DataTypeElem(name) ==
    [tag |-> "DataType", attrs |-> [name |-> name], childNodes |-> <<>>]

\* options.report_file: None ("" here) unless -r names a file
DefaultOptions == [report_file |-> ""]

----------------------------------------------------------------------------
(* _get_nv_type applied to an id and a calibrated attribute value *)

TypeIds ==
    (0..IdSpread)
    \cup ((NV_TYPE_EFS_RANGE - IdSpread)..(NV_TYPE_EFS_RANGE + IdSpread))

CalibratedWords ==
    {S_true, <<"T", "R", "U", "E">>, <<"T", "r", "u", "e">>,
     S_ets, <<"E", "T", "S">>, <<"E", "t", "s">>,
     S_false, <<"t", "r", "u">>, <<>>}

Calibrateds ==
    {Pad(l, w, r) : l \in 0..MaxPad, w \in CalibratedWords, r \in 0..MaxPad}

InitType ==
    /\ pc = "call"
    /\ \E id \in TypeIds, c \in Calibrateds :
          /\ nv_id = id
          /\ nv_calibrated = c
    /\ nv_type = NV_TYPE_NV
    /\ nv_file = AbsentFile /\ nv_items = Return(<<>>)
    /\ input_file = AbsentFile /\ definition_file = AbsentFile
    /\ out_file = AbsentFile /\ new_def_file = AbsentFile
    /\ report_file = AbsentReport /\ options = DefaultOptions
    /\ input_nv_items = <<>> /\ output_nv_items = <<>>
    /\ result = Return(<<>>) /\ verification_result_list = <<>>
    /\ trace = <<>>

GetNvTypeCall ==
    /\ pc = "call"
    /\ nv_type' = GetNvType(nv_id, nv_calibrated)
    /\ pc' = "returned"
    /\ UNCHANGED <<nv_id, nv_calibrated, nv_file, nv_items, input_file,
                   definition_file, out_file, new_def_file, report_file,
                   options, input_nv_items, output_nv_items, result,
                   verification_result_list, trace>>

NextType == GetNvTypeCall

SpecType == InitType /\ [][NextType]_vars

\* C7 (as amended): the type _get_nv_type returns is EFS if id > 65535
\* whatever calibrated is; else TA if calibrated, with surrounding whitespace
\* removed and lower-cased, is "true"; else ETS if calibrated, treated the
\* same way, is "ets"; else NV. id = 65535 is not EFS.
C7_TypeRule ==
    pc = "returned" =>
        LET c == Lower(Strip(nv_calibrated))
        IN  /\ nv_id > 65535 => nv_type = "EFS"
            /\ nv_id <= 65535 /\ c = S_true => nv_type = "TA"
            /\ nv_id <= 65535 /\ c = S_ets => nv_type = "ETS"
            /\ nv_id <= 65535 /\ c \notin {S_true, S_ets} => nv_type = "NV"

\* C7 witness: id 65535 with calibrated " TRUE" has been classified, as TA
C7_Witness ==
    /\ pc = "returned"
    /\ nv_id = 65535
    /\ nv_calibrated = <<" ", "T", "R", "U", "E">>
    /\ nv_type = "TA"

\* C7 as stated: TA when calibrated equals "true" case-insensitively, ETS
\* when calibrated equals "ets", with no whitespace removed and "ets"
\* compared as written.
C7_AsClaimed ==
    pc = "returned" =>
        nv_type = IF nv_id > 65535 THEN "EFS"
                  ELSE IF Lower(nv_calibrated) = S_true THEN "TA"
                  ELSE IF nv_calibrated = S_ets THEN "ETS"
                  ELSE "NV"

----------------------------------------------------------------------------
(* _read_nv_items applied to a file *)

NameA == <<" ", "a", " ">>
NameB == <<"b">>

GoodElems ==
    {Elem(<<"1">>, NameA, S_false, <<" ", "5", " ">>),
     Elem(S_65536, NameB, S_true, <<"9">>)}

BadElems ==
    {\* id="x"
     Elem(<<"x">>, NameB, S_false, <<"5">>),
     \* no id attribute
     [tag |-> "NvItem", attrs |-> [name |-> NameB, calibrated |-> S_false],
      childNodes |-> <<TextNode(<<"5">>)>>],
     \* no calibrated attribute
     [tag |-> "NvItem", attrs |-> [id |-> <<"1">>, name |-> NameB],
      childNodes |-> <<TextNode(<<"5">>)>>],
     \* no content: <NvItem .../>
     [tag |-> "NvItem",
      attrs |-> [id |-> <<"1">>, name |-> NameB, calibrated |-> S_false],
      childNodes |-> <<>>],
     \* an element where the text is expected: <NvItem ...><x/></NvItem>
     [tag |-> "NvItem",
      attrs |-> [id |-> <<"1">>, name |-> NameB, calibrated |-> S_false],
      childNodes |-> <<ElementNode>>]}

ReadElems == GoodElems \cup BadElems \cup {DataTypeElem(<<"u">>)}

MalformedFile == [state |-> "malformed", elements |-> <<>>]
UnreadableFile == [state |-> "unreadable", elements |-> <<>>]

ReadFiles ==
    {XmlFile(es) : es \in SeqsUpTo(ReadElems, MaxElems)}
    \cup {MalformedFile, UnreadableFile}

InitRead ==
    /\ pc = "read_call"
    /\ nv_file \in ReadFiles
    /\ nv_items = Return(<<>>)
    /\ nv_id = 0 /\ nv_calibrated = <<>> /\ nv_type = NV_TYPE_NV
    /\ input_file = AbsentFile /\ definition_file = AbsentFile
    /\ out_file = AbsentFile /\ new_def_file = AbsentFile
    /\ report_file = AbsentReport /\ options = DefaultOptions
    /\ input_nv_items = <<>> /\ output_nv_items = <<>>
    /\ result = Return(<<>>) /\ verification_result_list = <<>>
    /\ trace = <<>>

ReadNvItemsCall ==
    /\ pc = "read_call"
    /\ nv_items' = ReadNvItems(nv_file)
    /\ pc' = "read_returned"
    /\ UNCHANGED <<nv_id, nv_calibrated, nv_type, nv_file, input_file,
                   definition_file, out_file, new_def_file, report_file,
                   options, input_nv_items, output_nv_items, result,
                   verification_result_list, trace>>

NextRead == ReadNvItemsCall

SpecRead == InitRead /\ [][NextRead]_vars

\* what C10 calls a bad NvItem
BadTag(t) ==
    /\ t.tag = "NvItem"
    /\ \/ "id" \notin DOMAIN t.attrs
       \/ "calibrated" \notin DOMAIN t.attrs
       \/ ParseInt(GetAttribute(t, "id")).exc # ERR_NONE
       \/ t.childNodes = <<>>
       \/ ~Head(t.childNodes).isText

\* C10: reading a file that is malformed, unreadable or holds a bad NvItem
\* (non-integer id, no text content, no id or no calibrated attribute)
\* raises NVAutomationError and returns no list.
C10_BadFileRaises ==
    (/\ pc = "read_returned"
     /\ \/ nv_file.state # "ok"
        \/ \E i \in DOMAIN nv_file.elements : BadTag(nv_file.elements[i]))
    => nv_items.exc = NVAutomationError

----------------------------------------------------------------------------
(* create_new_definition_file applied to an input file and a master file *)

TrimInputElems ==
    {Elem(<<"1">>, NameA, S_false, <<"5">>),
     Elem(<<"2">>, NameB, S_true, <<"5">>),
     Elem(<<"x">>, NameB, S_false, <<"5">>)}

MasterElems ==
    {DataTypeElem(<<"u">>), DataTypeElem(<<"v">>),
     Elem(<<"1">>, NameA, S_false, <<"0">>),
     Elem(<<" ", "2">>, NameB, S_false, <<"0">>),
     Elem(<<"3">>, NameB, S_false, <<"0">>),
     Elem(<<"x">>, NameB, S_false, <<"0">>)}

InitTrim ==
    /\ pc = "trim_call"
    /\ input_file \in {XmlFile(es) : es \in SeqsUpTo(TrimInputElems, MaxElems)}
    /\ definition_file \in
          {XmlFile(es) : es \in SeqsUpTo(MasterElems, MaxElems)}
          \cup {MalformedFile}
    /\ options = DefaultOptions
    /\ input_nv_items = <<>> /\ output_nv_items = <<>>
    /\ new_def_file = AbsentFile
    /\ result = Return(<<>>)
    /\ nv_id = 0 /\ nv_calibrated = <<>> /\ nv_type = NV_TYPE_NV
    /\ nv_file = AbsentFile /\ nv_items = Return(<<>>)
    /\ out_file = AbsentFile /\ report_file = AbsentReport
    /\ verification_result_list = <<>>
    /\ trace = <<>>

CreateNewDefinitionFileCall ==
    /\ pc = "trim_call"
    /\ \E canWrite \in BOOLEAN :
       \E r \in {CreateNewDefinitionFile(input_file, definition_file,
                                        new_def_file, canWrite)} :
           /\ result' = r.result
           /\ new_def_file' = r.file
    /\ pc' = "trim_returned"
    /\ UNCHANGED <<nv_id, nv_calibrated, nv_type, nv_file, nv_items,
                   input_file, definition_file, out_file, report_file,
                   options, input_nv_items, output_nv_items,
                   verification_result_list, trace>>

NextTrim == CreateNewDefinitionFileCall

SpecTrim == InitTrim /\ [][NextTrim]_vars

Count(seq, e) == Cardinality({i \in DOMAIN seq : seq[i] = e})
Range(seq) == {seq[i] : i \in DOMAIN seq}

\* the ids the input file lists
InputIdSet == Range(ReadInputFile(input_file).value)

\* an element of the master file that belongs in the trimmed definition
Wanted(e) ==
    \/ e.tag = "DataType"
    \/ /\ e.tag = "NvItem"
       /\ ParseInt(GetAttribute(e, "id")).exc = ERR_NONE
       /\ ParseInt(GetAttribute(e, "id")).value \in InputIdSet

\* C8: the trimmed definition written holds every DataType element of the
\* master file and exactly the NvItem elements of the master file whose
\* integer id is among the input ids, each as often as the master holds it
\* and nothing else, also when the input repeats an id.
C8_TrimmedExactly ==
    (pc = "trim_returned" /\ result.exc = ERR_NONE) =>
        /\ new_def_file.state = "ok"
        /\ \A e \in Range(definition_file.elements)
                    \cup Range(new_def_file.elements) :
              Count(new_def_file.elements, e) =
                 IF Wanted(e) THEN Count(definition_file.elements, e) ELSE 0

\* C8 witness: the input lists id 2 twice; of a master with NvItems 2 and 3
\* the trimmed definition written holds NvItem 2, once
C8_Witness ==
    /\ pc = "trim_returned"
    /\ result.exc = ERR_NONE
    /\ ReadInputFile(input_file).value = <<2, 2>>
    /\ Len(definition_file.elements) = 2
    /\ definition_file.elements[2].tag = "NvItem"
    /\ GetAttribute(definition_file.elements[2], "id") = <<"3">>
    /\ Len(new_def_file.elements) = 1
    /\ GetAttribute(new_def_file.elements[1], "id") = <<" ", "2">>

----------------------------------------------------------------------------
(* verify and publish_verification_result applied to an input file, a      *)
(* trimmed definition and a device-read file, as _main calls them          *)

VerifyInputElems ==
    {Elem(<<"1">>, NameA, S_false, <<" ", "5", " ">>),
     Elem(<<"1">>, NameB, S_ets, <<"5">>),
     Elem(S_65536, <<"a">>, S_false, <<"5">>)}

VerifyDefElems ==
    {Elem(<<"1">>, <<"a">>, S_true, <<"0">>),
     Elem(<<"1">>, NameB, S_false, <<"0">>)}

VerifyOutElems ==
    {Elem(<<"1">>, <<"a">>, S_false, <<"5">>),
     Elem(<<"1">>, <<"a">>, S_false, <<" ", "9">>),
     Elem(<<"1">>, NameB, S_false, <<"5">>)}

InitVerify ==
    /\ pc = "verify_call"
    /\ input_file \in {XmlFile(es) : es \in SeqsUpTo(VerifyInputElems, MaxItems)}
    /\ new_def_file \in {XmlFile(es) : es \in SeqsUpTo(VerifyDefElems, MaxDefs)}
    /\ out_file \in {XmlFile(es) : es \in SeqsUpTo(VerifyOutElems, MaxItems)}
    /\ options = DefaultOptions
    /\ input_nv_items = <<>> /\ output_nv_items = <<>>
    /\ report_file = AbsentReport
    /\ result = Return(<<>>)
    /\ verification_result_list = <<>>
    /\ nv_id = 0 /\ nv_calibrated = <<>> /\ nv_type = NV_TYPE_NV
    /\ nv_file = AbsentFile /\ nv_items = Return(<<>>)
    /\ definition_file = AbsentFile
    /\ trace = <<>>

\* nv_automation.verify(REPORT_FILE); templateOk: the template file can be
\* read, canWrite: the report file can be opened for writing
VerifyWithReportCall ==
    /\ pc = "verify_call"
    /\ \E templateOk \in BOOLEAN, canWrite \in BOOLEAN :
       \E r \in {Verify(input_file, new_def_file, out_file, TRUE, report_file,
                        templateOk, canWrite)} :
           /\ result' = r.result
           /\ report_file' = r.file
           /\ input_nv_items' = r.input_nv_items
           /\ output_nv_items' = r.output_nv_items
           /\ verification_result_list' =
                 IF r.result.exc = ERR_NONE THEN r.result.value ELSE <<>>
    /\ pc' = "verified"
    /\ UNCHANGED <<nv_id, nv_calibrated, nv_type, nv_file, nv_items,
                   input_file, definition_file, out_file, new_def_file,
                   options, trace>>

\* result_list = nv_automation.verify()
VerifyCall ==
    /\ pc = "verify_call"
    /\ \E r \in {Verify(input_file, new_def_file, out_file, FALSE, report_file,
                        TRUE, TRUE)} :
           /\ result' = r.result
           /\ report_file' = r.file
           /\ input_nv_items' = r.input_nv_items
           /\ output_nv_items' = r.output_nv_items
           /\ verification_result_list' =
                 IF r.result.exc = ERR_NONE THEN r.result.value ELSE <<>>
    /\ pc' = "listed"
    /\ UNCHANGED <<nv_id, nv_calibrated, nv_type, nv_file, nv_items,
                   input_file, definition_file, out_file, new_def_file,
                   options, trace>>

\* publish_verification_result(result_list, report_file): on the list verify
\* returned, or on an empty list before any verify
PublishCall ==
    /\ \/ pc = "verify_call"
       \/ pc = "listed" /\ result.exc = ERR_NONE
    /\ \E templateOk \in BOOLEAN, canWrite \in BOOLEAN :
       \E r \in {PublishVerificationResult(verification_result_list,
                    report_file, templateOk, canWrite)} :
           /\ result' = r.result
           /\ report_file' = r.file
    /\ pc' = "published"
    /\ UNCHANGED <<nv_id, nv_calibrated, nv_type, nv_file, nv_items,
                   input_file, definition_file, out_file, new_def_file,
                   options, input_nv_items, output_nv_items,
                   verification_result_list, trace>>

NextVerify == VerifyWithReportCall \/ VerifyCall \/ PublishCall

SpecVerify == InitVerify /\ [][NextVerify]_vars

\* verify has returned a result list
VerifyReturned ==
    /\ pc \in {"verified", "listed", "published"}
    /\ verification_result_list # <<>>

\* C1 (as amended): an input item's result is OK exactly when the first
\* device-read item with the same id and the same name has the same value
\* string; it is NG when that first item's value string differs.
C1_OkIffFirstMatchEqual ==
    VerifyReturned =>
        \A i \in DOMAIN verification_result_list :
            LET v == verification_result_list[i]
                in == v.input_nv_item
                firstEqual ==
                    \E j \in DOMAIN output_nv_items :
                        /\ output_nv_items[j].nv_id = in.nv_id
                        /\ output_nv_items[j].nv_name = in.nv_name
                        /\ output_nv_items[j].nv_values = in.nv_values
                        /\ \A k \in 1..(j - 1) :
                              \/ output_nv_items[k].nv_id # in.nv_id
                              \/ output_nv_items[k].nv_name # in.nv_name
            IN  /\ v.verification_result \in {"OK", "NG"}
                /\ v.verification_result = "OK" <=> firstEqual

\* C1 witness: the device-read list holds (1, a) twice, with value 9 and then
\* with the input's value 5, and the result for input (1, a, 5) is NG
C1_Witness ==
    /\ VerifyReturned
    /\ Len(output_nv_items) = 2
    /\ output_nv_items[1].nv_id = 1 /\ output_nv_items[2].nv_id = 1
    /\ output_nv_items[1].nv_name = <<"a">> /\ output_nv_items[2].nv_name = <<"a">>
    /\ output_nv_items[1].nv_values = <<"9">> /\ output_nv_items[2].nv_values = <<"5">>
    /\ verification_result_list[1].input_nv_item.nv_id = 1
    /\ verification_result_list[1].input_nv_item.nv_name = <<"a">>
    /\ verification_result_list[1].input_nv_item.nv_values = <<"5">>
    /\ verification_result_list[1].verification_result = "NG"

\* C1 as stated: the result is OK exactly when the device-read list holds an
\* item with the same id, the same name and the same value string, and NG
\* when it holds one with the same id and name and another value string.
C1_AsClaimed ==
    VerifyReturned =>
        \A i \in DOMAIN verification_result_list :
            LET v == verification_result_list[i]
                in == v.input_nv_item
            IN  v.verification_result = "OK" <=>
                    \E j \in DOMAIN output_nv_items :
                        /\ output_nv_items[j].nv_id = in.nv_id
                        /\ output_nv_items[j].nv_name = in.nv_name
                        /\ output_nv_items[j].nv_values = in.nv_values

\* C2: an input item that no device-read item matches on both id and name,
\* also when one has the same id under another name, is reported NG with
\* the sentinel output item (id -1, empty name, empty values).
C2_NoMatchGivesSentinel ==
    VerifyReturned =>
        \A i \in DOMAIN verification_result_list :
            LET v == verification_result_list[i]
                in == v.input_nv_item
            IN  (\A j \in DOMAIN output_nv_items :
                    \/ output_nv_items[j].nv_id # in.nv_id
                    \/ output_nv_items[j].nv_name # in.nv_name)
                => /\ v.verification_result = "NG"
                   /\ v.output_nv_item.nv_id = -1
                   /\ v.output_nv_item.nv_name = <<>>
                   /\ v.output_nv_item.nv_values = <<>>

\* C2 witness: input (1, b) met only device-read (1, a), with the same
\* value, and was given the sentinel
C2_Witness ==
    /\ VerifyReturned
    /\ \E i \in DOMAIN verification_result_list :
          /\ verification_result_list[i].input_nv_item.nv_id = 1
          /\ verification_result_list[i].input_nv_item.nv_name = <<"b">>
          /\ \E j \in DOMAIN output_nv_items :
                /\ output_nv_items[j].nv_id = 1
                /\ output_nv_items[j].nv_name = <<"a">>
                /\ output_nv_items[j].nv_values =
                      verification_result_list[i].input_nv_item.nv_values
          /\ verification_result_list[i].verification_result = "NG"
          /\ verification_result_list[i].output_nv_item.nv_id = -1

\* C3: for non-empty lists verify returns one VerificationItem per input
\* item, in the input's order: the i-th result carries the i-th input item.
C3_OnePerInputInOrder ==
    (/\ pc \in {"verified", "listed"}
     /\ result.exc = ERR_NONE
     /\ input_nv_items # <<>> /\ output_nv_items # <<>>)
    => /\ Len(result.value) = Len(input_nv_items)
       /\ Len(result.value) =
             Cardinality({i \in DOMAIN input_file.elements :
                             input_file.elements[i].tag = "NvItem"})
       /\ \A i \in DOMAIN input_nv_items :
             result.value[i].input_nv_item = input_nv_items[i]

\* C3 witness: two different input items, the first without a match and the
\* second with one, gave two results
C3_Witness ==
    /\ pc = "listed"
    /\ result.exc = ERR_NONE
    /\ Len(input_nv_items) = 2
    /\ input_nv_items[1] # input_nv_items[2]
    /\ Len(result.value) = 2
    /\ result.value[1].output_nv_item.nv_id = -1
    /\ result.value[2].output_nv_item.nv_id # -1

\* C5: a report row's state is SKIPPED when the input item's type is not NV
\* whatever the result, FAILED when the type is NV and the result NG, and
\* PASSED otherwise.
C5_RowState ==
    report_file.state = "ok" =>
        /\ Len(report_file.rows) = Len(verification_result_list)
        /\ \A i \in DOMAIN report_file.rows :
              LET v == verification_result_list[i]
                  type == v.input_nv_item.nv_type
              IN  report_file.rows[i].state =
                     IF type \in {"EFS", "TA", "ETS"}
                     THEN "<span style='color:gray;'>SKIPPED</span>"
                     ELSE IF v.verification_result = "NG"
                     THEN "<span style='color:red;'>FAILED</span>"
                     ELSE "<span style='color:green;'>PASSED</span>"

\* C5 witness: a report with a SKIPPED row for an NG result and a FAILED row
C5_Witness ==
    /\ report_file.state = "ok"
    /\ \E i \in DOMAIN report_file.rows :
          /\ verification_result_list[i].verification_result = "NG"
          /\ report_file.rows[i].state = RESULT_SKIPPED
    /\ \E i \in DOMAIN report_file.rows :
          report_file.rows[i].state = RESULT_FAILED

\* C6: the summary is FAILED exactly when the result list is empty or an
\* item of type NV has result NG, and PASSED otherwise; NG on an EFS, TA or
\* ETS item does not make it FAILED.
C6_Summary ==
    report_file.state = "ok" =>
        LET failed ==
                \/ verification_result_list = <<>>
                \/ \E i \in DOMAIN verification_result_list :
                      /\ verification_result_list[i].input_nv_item.nv_type = "NV"
                      /\ verification_result_list[i].verification_result = "NG"
        IN  report_file.summary =
               IF failed THEN "<span style='color:red;'>FAILED</span>"
               ELSE "<span style='color:green;'>PASSED</span>"

\* C6 witness: a report whose summary is PASSED over an NG result on an item
\* that is not of type NV
C6_Witness ==
    /\ report_file.state = "ok"
    /\ report_file.summary = REPORT_SUMMARY_PASSED
    /\ \E i \in DOMAIN verification_result_list :
          /\ verification_result_list[i].input_nv_item.nv_type # "NV"
          /\ verification_result_list[i].verification_result = "NG"

----------------------------------------------------------------------------
(* _main: one run of the pipeline *)

MainInputElems == {Elem(<<"1">>, <<"a">>, S_false, <<"5">>)}

MainMasterElems ==
    {DataTypeElem(<<"u">>),
     Elem(<<"1">>, <<"a">>, S_false, <<"0">>),
     Elem(<<"1">>, <<"a">>, S_true, <<"0">>)}

MainDeviceElems ==
    {Elem(<<"1">>, <<"a">>, S_false, <<"5">>),
     Elem(<<"1">>, <<"a">>, S_false, <<"9">>)}

\* what the vendor tool may leave in self.out_file
DeviceFiles ==
    {XmlFile(es) : es \in SeqsUpTo(MainDeviceElems, MaxMainElems)}
    \cup {UnreadableFile}

InitMain ==
    /\ pc = "main_start"
    /\ input_file \in
          {XmlFile(es) : es \in SeqsUpTo(MainInputElems, MaxMainElems)}
          \cup {UnreadableFile}
    /\ definition_file \in
          {XmlFile(es) : es \in SeqsUpTo(MainMasterElems, MaxMainElems)}
          \cup {MalformedFile}
    /\ options \in {[report_file |-> ""], [report_file |-> "report.html"]}
    /\ out_file = AbsentFile /\ new_def_file = AbsentFile
    /\ report_file = AbsentReport
    /\ input_nv_items = <<>> /\ output_nv_items = <<>>
    /\ result = Return(<<>>) /\ verification_result_list = <<>>
    /\ nv_id = 0 /\ nv_calibrated = <<>> /\ nv_type = NV_TYPE_NV
    /\ nv_file = AbsentFile /\ nv_items = Return(<<>>)
    /\ trace = <<>>

\* line 261: nv_automation.create_new_definition_file(); an exception leaves
\* _main
MainCreate ==
    /\ pc = "main_start"
    /\ \E canWrite \in BOOLEAN :
       \E r \in {CreateNewDefinitionFile(input_file, definition_file,
                                        new_def_file, canWrite)} :
           /\ result' = r.result
           /\ new_def_file' = r.file
           /\ pc' = IF r.result.exc = ERR_NONE THEN "created" ELSE "exit"
    /\ trace' = Append(trace, "create")
    /\ UNCHANGED <<nv_id, nv_calibrated, nv_type, nv_file, nv_items,
                   input_file, definition_file, out_file, report_file,
                   options, input_nv_items, output_nv_items,
                   verification_result_list>>

\* lines 264-271: read_nv_items_from_phone; on NVAutomationError the new
\* definition file is removed, an OSError of os.remove is passed over, and
\* NVAutomationError is raised again. The trace records "tool_not_found"
\* when command_tool_exists answered no, and "launch" for the run_cmd call.
MainReadPhone ==
    /\ pc = "created"
    /\ \E toolExists \in BOOLEAN, launchOk \in BOOLEAN,
          commandFailed \in BOOLEAN, written \in DeviceFiles,
          canRemove \in BOOLEAN :
       \E r \in {ReadNvItemsFromPhone(toolExists, launchOk, commandFailed,
                                     written, out_file)} :
           /\ out_file' = r.file
           /\ IF r.result.exc = ERR_NONE
              THEN /\ result' = r.result
                   /\ trace' = trace
                        \o (IF r.launched THEN <<"launch">> ELSE <<>>)
                   /\ pc' = "phone_read"
                   /\ UNCHANGED new_def_file
              ELSE /\ result' = Raise(NVAutomationError)
                   /\ trace' = trace
                        \o (IF toolExists THEN <<>> ELSE <<"tool_not_found">>)
                        \o (IF r.launched THEN <<"launch">> ELSE <<>>)
                        \o <<"remove">>
                        \o (IF canRemove THEN <<>> ELSE <<"remove_failed">>)
                   /\ new_def_file' = OsRemove(new_def_file, canRemove)
                   /\ pc' = "exit"
    /\ UNCHANGED <<nv_id, nv_calibrated, nv_type, nv_file, nv_items,
                   input_file, definition_file, report_file, options,
                   input_nv_items, output_nv_items, verification_result_list>>

\* lines 274-278: options.report_file is None: verify(REPORT_FILE)
MainVerifyDefaultReport ==
    /\ pc = "phone_read"
    /\ options.report_file = ""
    /\ \E templateOk \in BOOLEAN, canWrite \in BOOLEAN :
       \E r \in {Verify(input_file, new_def_file, out_file, TRUE, report_file,
                        templateOk, canWrite)} :
           /\ result' = r.result
           /\ report_file' = r.file
           /\ input_nv_items' = r.input_nv_items
           /\ output_nv_items' = r.output_nv_items
           /\ verification_result_list' =
                 IF r.result.exc = ERR_NONE THEN r.result.value ELSE <<>>
           /\ pc' = IF r.result.exc = ERR_NONE THEN "verified" ELSE "exit"
    /\ trace' = Append(trace, "verify")
    /\ UNCHANGED <<nv_id, nv_calibrated, nv_type, nv_file, nv_items,
                   input_file, definition_file, out_file, new_def_file,
                   options>>

\* lines 279-284: result_list = verify(), then
\* publish_verification_result(result_list, options.report_file)
MainVerifyThenPublish ==
    /\ pc = "phone_read"
    /\ options.report_file # ""
    /\ \E templateOk \in BOOLEAN, canWrite \in BOOLEAN :
       \E r \in {Verify(input_file, new_def_file, out_file, FALSE,
                        report_file, TRUE, TRUE)} :
           /\ input_nv_items' = r.input_nv_items
           /\ output_nv_items' = r.output_nv_items
           /\ verification_result_list' =
                 IF r.result.exc = ERR_NONE THEN r.result.value ELSE <<>>
           /\ IF r.result.exc # ERR_NONE
              THEN /\ result' = r.result
                   /\ trace' = Append(trace, "verify")
                   /\ pc' = "exit"
                   /\ UNCHANGED report_file
              ELSE \E p \in {PublishVerificationResult(r.result.value,
                                report_file, templateOk, canWrite)} :
                      /\ result' = p.result
                      /\ report_file' = p.file
                      /\ trace' = trace \o <<"verify", "publish">>
                      /\ pc' = IF p.result.exc = ERR_NONE THEN "verified"
                               ELSE "exit"
    /\ UNCHANGED <<nv_id, nv_calibrated, nv_type, nv_file, nv_items,
                   input_file, definition_file, out_file, new_def_file,
                   options>>

\* lines 286-291: os.remove of the new definition file; an OSError is logged
MainRemove ==
    /\ pc = "verified"
    /\ \E canRemove \in BOOLEAN :
          /\ new_def_file' = OsRemove(new_def_file, canRemove)
          /\ trace' = trace \o <<"remove">>
                \o (IF canRemove THEN <<>>
                    ELSE <<"remove_failed", "log_cannot_remove">>)
    /\ result' = Return("None")
    /\ pc' = "exit"
    /\ UNCHANGED <<nv_id, nv_calibrated, nv_type, nv_file, nv_items,
                   input_file, definition_file, out_file, report_file,
                   options, input_nv_items, output_nv_items,
                   verification_result_list>>

NextMain ==
    \/ MainCreate
    \/ MainReadPhone
    \/ MainVerifyDefaultReport
    \/ MainVerifyThenPublish
    \/ MainRemove

SpecMain == InitMain /\ [][NextMain]_vars

\* the run called verify on a file that reads as an empty item list
VerifyMetEmptyList ==
    /\ "verify" \in Range(trace)
    /\ \/ ReadNvItems(input_file) = Return(<<>>)
       \/ ReadNvItems(out_file) = Return(<<>>)

\* C4: when the input item list or the device-read item list is empty,
\* verify fails with an error before it compares anything, and the run writes
\* no report file, whether or not one was asked for.
C4_EmptyListFailsWithoutReport ==
    (pc = "exit" /\ VerifyMetEmptyList) =>
        /\ result.exc # ERR_NONE
        /\ verification_result_list = <<>>
        /\ "publish" \notin Range(trace)
        /\ report_file = AbsentReport

\* C4 witness: a run with -r given ended in verify's error over an input
\* list of one item and an empty device-read list, leaving no report
C4_Witness ==
    /\ pc = "exit"
    /\ options.report_file # ""
    /\ "verify" \in Range(trace)
    /\ Len(ReadNvItems(input_file).value) = 1
    /\ ReadNvItems(out_file) = Return(<<>>)
    /\ result.exc = NVAutomationError
    /\ report_file = AbsentReport

\* C9: every run that ends, in success or in the failure of any stage, has
\* attempted to delete the trimmed definition file; a failed deletion is
\* logged and does not fail the run.
C9_RemovalAlwaysAttempted ==
    pc = "exit" =>
        /\ "remove" \in Range(trace)
        /\ "remove_failed" \in Range(trace) =>
              "log_cannot_remove" \in Range(trace)

\* C11: in any run the vendor tool is launched at most once, with no second
\* launch after a failed one, and a run in which the executable was not found
\* never launches it: read_nv_items_from_phone raised before any launch.
C11_LaunchAtMostOnceNeverWhenMissing ==
    /\ Count(trace, "launch") <= 1
    /\ "tool_not_found" \in Range(trace) =>
          /\ "launch" \notin Range(trace)
          /\ pc = "exit"
          /\ result.exc = NVAutomationError
    /\ (pc = "exit" /\ "launch" \in Range(trace)
            /\ "verify" \notin Range(trace)) =>
          result.exc = NVAutomationError

\* C11 witness: a run ended on the missing executable, after the trimmed
\* definition was created, without a launch
C11_Witness ==
    /\ pc = "exit"
    /\ trace[1] = "create"
    /\ "tool_not_found" \in Range(trace)
    /\ "launch" \notin Range(trace)
    /\ result.exc = NVAutomationError

\* C12: when create_new_definition_file succeeds, it returns the path of the
\* trimmed definition file it wrote.
C12_ReturnsNewDefFilePath ==
    (pc = "trim_returned" /\ result.exc = ERR_NONE) =>
        /\ new_def_file.state = "ok"
        /\ result.value = NEW_DEFINITION_FILE

----------------------------------------------------------------------------
(* NVAutomationQCT.verify, lines 93-94: the input items are read and then
   re-typed against the trimmed definition *)

RetypeInputElems ==
    {Elem(<<"1">>, NameA, S_false, <<" ", "5">>),
     Elem(<<"1">>, NameB, S_ets, <<"7">>),
     Elem(<<"2">>, <<"a">>, S_false, <<"5">>)}

RetypeDefElems ==
    {Elem(<<"1">>, <<"a">>, S_true, <<"0">>),
     Elem(<<" ", "1">>, <<"a">>, S_ets, <<"0">>),
     Elem(<<"1">>, NameB, S_false, <<"0">>),
     Elem(S_65536, <<"a">>, S_false, <<"0">>),
     DataTypeElem(<<"u">>)}

InitRetype ==
    /\ pc = "retype_call"
    /\ input_file \in
          {XmlFile(es) : es \in SeqsUpTo(RetypeInputElems, MaxRetypeItems)}
          \cup {UnreadableFile}
    /\ new_def_file \in
          {XmlFile(es) : es \in SeqsUpTo(RetypeDefElems, MaxRetypeDefs)}
          \cup {AbsentFile}
    /\ nv_items = Return(<<>>)
    /\ input_nv_items = <<>> /\ output_nv_items = <<>>
    /\ result = Return(<<>>)
    /\ nv_id = 0 /\ nv_calibrated = <<>> /\ nv_type = NV_TYPE_NV
    /\ nv_file = AbsentFile /\ definition_file = AbsentFile
    /\ out_file = AbsentFile /\ report_file = AbsentReport
    /\ options = DefaultOptions
    /\ verification_result_list = <<>>
    /\ trace = <<>>

\* line 94: self._read_nv_items(self.input_file), the argument of the
\* re-typing call; nv_items keeps the list as it was read
RetypeReadInput ==
    /\ pc = "retype_call"
    /\ \E r \in {ReadNvItems(input_file)} :
          /\ nv_items' = r
          /\ result' = r
          /\ pc' = IF r.exc = ERR_NONE THEN "retype_read" ELSE "retype_raised"
    /\ UNCHANGED <<nv_id, nv_calibrated, nv_type, nv_file, input_file,
                   definition_file, out_file, new_def_file, report_file,
                   options, input_nv_items, output_nv_items,
                   verification_result_list, trace>>

\* line 93: input_nv_items = self._update_nv_items_with_def_file(...)
UpdateNvItemsWithDefFileCall ==
    /\ pc = "retype_read"
    /\ \E r \in {UpdateNvItemsWithDefFile(nv_items.value, new_def_file)} :
          /\ result' = r
          /\ input_nv_items' = IF r.exc = ERR_NONE THEN r.value ELSE <<>>
          /\ pc' = IF r.exc = ERR_NONE THEN "retyped" ELSE "retype_raised"
    /\ UNCHANGED <<nv_id, nv_calibrated, nv_type, nv_file, nv_items,
                   input_file, definition_file, out_file, new_def_file,
                   report_file, options, output_nv_items,
                   verification_result_list, trace>>

NextRetype == RetypeReadInput \/ UpdateNvItemsWithDefFileCall

SpecRetype == InitRetype /\ [][NextRetype]_vars

\* C13: re-typing changes nothing but the type field: every input item keeps
\* its id, name, values and position; its type becomes the type of the first
\* definition item with the same id and the same name, and stays unchanged
\* when no definition item matches on both.
C13_RetypeChangesOnlyType ==
    (pc = "retyped") =>
        \A defs \in {ReadNvItems(new_def_file).value} :
            /\ Len(input_nv_items) = Len(nv_items.value)
            /\ \A i \in DOMAIN input_nv_items :
                  LET before == nv_items.value[i]
                      after == input_nv_items[i]
                      matches == {j \in DOMAIN defs :
                                     /\ defs[j].nv_id = before.nv_id
                                     /\ defs[j].nv_name = before.nv_name}
                  IN /\ after.nv_id = before.nv_id
                     /\ after.nv_name = before.nv_name
                     /\ after.nv_values = before.nv_values
                     /\ matches = {} => after.nv_type = before.nv_type
                     /\ matches # {} =>
                           \E j \in matches :
                              /\ \A k \in matches : j <= k
                              /\ after.nv_type = defs[j].nv_type

\* C13 witness: of two input items the first met two definition items with
\* its id and name and different types and took the first one's type, and
\* the second, matched by no definition item, kept its type
C13_Witness ==
    /\ pc = "retyped"
    /\ Len(input_nv_items) = 2
    /\ \A defs \in {ReadNvItems(new_def_file).value} :
          /\ Len(defs) = 2
          /\ SameKey(nv_items.value[1], defs[1])
          /\ SameKey(nv_items.value[1], defs[2])
          /\ defs[1].nv_type # defs[2].nv_type
          /\ nv_items.value[1].nv_type # defs[1].nv_type
          /\ input_nv_items[1].nv_type = defs[1].nv_type
          /\ ~SameKey(nv_items.value[2], defs[1])
          /\ input_nv_items[2] = nv_items.value[2]

====
